---- MODULE Spec2Model ----
(***************************************************************************)
(* A model of src/env_util.rs: the staged pipeline                         *)
(*      get(key) -> Raw -> Valid -> Parsed -> Parsed -> ...                *)
(* that reads one environment variable and converts it into a typed value. *)
(*                                                                         *)
(* Text is a sequence of one-character strings.  An OsString is a sequence *)
(* of units, each either a character or InvalidUnit, a unit that is not    *)
(* valid Unicode (a lone byte 0xFF on Unix).                               *)
(***************************************************************************)
EXTENDS Integers, Sequences, FiniteSets, TLC

\* Longest generated environment value, in units.
MaxLen == 2

\* Most conversion steps of one pipeline run.
MaxSteps == 2

\* Most stage objects one caller allocates in the ownership specification.
MaxObjs == 4

(***************************************************************************)
(* Values                                                                  *)
(***************************************************************************)
NoneV == [tag |-> "None"]

Some(x) == [tag |-> "Some", v |-> x]

Ok(x) == [tag |-> "Ok", v |-> x]

Err(e) == [tag |-> "Err", e |-> e]

Keys == {"PORT", "HOST"}

InvalidUnit == "xFF"

Replacement == "uFFFD"

GenUnits == {"7", InvalidUnit}

SeqsUpTo(S, n) == UNION {[1..m -> S] : m \in 0..n}

ScenarioValues ==
  { <<"9", "0", "9", "0">>, <<"a", "b", "c">>, <<"+", "7">>, <<"7", "0", "0", "0", "0">> }

OsValues == SeqsUpTo(GenUnits, MaxLen) \cup ScenarioValues

Defaults == { <<"8", "0", "8", "0">>, <<"d">> }

(***************************************************************************)
(* State                                                                   *)
(***************************************************************************)
VARIABLES
  env,       \* the process environment: key -> Option<OsString>
  cur,       \* what the caller holds: the value the last call returned
  asked,     \* history: the key get was called with
  observed,  \* history: the raw value var_os returned to get
  trace,     \* history: the calls the caller made, each with its argument
  first,     \* history: the string of the Valid stage that entered the first conversion
  steps,     \* history: conversion steps taken
  invoked,   \* history: conversions invoked
  objs       \* ownership specification: the stage objects the caller allocated

vars == <<env, cur, asked, observed, trace, first, steps, invoked, objs>>

(***************************************************************************)
(* Environment accessor                                                    *)
(***************************************************************************)
var_os(key) == env[key]

get(key) == [tag |-> "Raw", key |-> key, value |-> var_os(key)]

(***************************************************************************)
(* OsString conversions                                                    *)
(***************************************************************************)
into_string(os) ==
  IF \A i \in DOMAIN os : os[i] # InvalidUnit THEN Ok(os) ELSE Err(os)

to_string_lossy(os) ==
  [i \in DOMAIN os |-> IF os[i] = InvalidUnit THEN Replacement ELSE os[i]]

(***************************************************************************)
(* Errors and stages                                                       *)
(***************************************************************************)
MissingError(key) == [variant |-> "Missing", key |-> key]

InvalidUnicodeError(key, value) ==
  [variant |-> "InvalidUnicode", key |-> key, value |-> value]

ParseError(key, value, from, to, err) ==
  [variant |-> "Parse", key |-> key, value |-> value, from |-> from, to |-> to,
   err |-> err]

Valid(key, value) == [tag |-> "Valid", key |-> key, value |-> value]

Parsed(key, value, inner) ==
  [tag |-> "Parsed", key |-> key, value |-> value, inner |-> inner]

(***************************************************************************)
(* impl Raw                                                                *)
(***************************************************************************)
Raw_into_inner(self) == self.value

\* required_unchecked looking the variable up again instead of using the value
\* get stored: C8_ReadOnce excludes it.
required_unchecked_rereads(self) ==
  IF var_os(self.key).tag = "Some"
  THEN LET r == into_string(var_os(self.key).v) IN
       IF r.tag = "Ok"
       THEN Ok(Valid(self.key, r.v))
       ELSE Ok(Valid(self.key, to_string_lossy(r.e)))
  ELSE Err(MissingError(self.key))

required_unchecked(self) ==
  IF self.value.tag = "Some"
  THEN LET r == into_string(self.value.v) IN
       IF r.tag = "Ok"
       THEN Ok(Valid(self.key, r.v))
       ELSE Ok(Valid(self.key, to_string_lossy(r.e)))
  ELSE Err(MissingError(self.key))

required_checked(self) ==
  IF self.value.tag = "Some"
  THEN LET r == into_string(self.value.v) IN
       IF r.tag = "Ok"
       THEN Ok(Valid(self.key, r.v))
       ELSE Err(InvalidUnicodeError(self.key, to_string_lossy(r.e)))
  ELSE Err(MissingError(self.key))

optional_unchecked(self) ==
  IF self.value.tag = "Some"
  THEN LET r == into_string(self.value.v) IN
       IF r.tag = "Ok"
       THEN Some(Valid(self.key, r.v))
       ELSE Some(Valid(self.key, to_string_lossy(r.e)))
  ELSE NoneV

\* optional_checked with the invalid arm of optional_unchecked: C3_InvalidOutcome
\* excludes it.
optional_checked_lossy(self) ==
  IF self.value.tag = "Some"
  THEN LET r == into_string(self.value.v) IN
       IF r.tag = "Ok"
       THEN Ok(Some(Valid(self.key, r.v)))
       ELSE Ok(Some(Valid(self.key, to_string_lossy(r.e))))
  ELSE Ok(NoneV)

optional_checked(self) ==
  IF self.value.tag = "Some"
  THEN LET r == into_string(self.value.v) IN
       IF r.tag = "Ok"
       THEN Ok(Some(Valid(self.key, r.v)))
       ELSE Err(InvalidUnicodeError(self.key, to_string_lossy(r.e)))
  ELSE Ok(NoneV)

\* with_default_unchecked giving the default also for a variable that is set:
\* C2_TextUnchanged excludes it.
with_default_unchecked_always(self, default) ==
  IF self.value.tag = "Some"
  THEN LET r == into_string(self.value.v) IN
       IF r.tag = "Ok"
       THEN Valid(self.key, default)
       ELSE Valid(self.key, to_string_lossy(r.e))
  ELSE Valid(self.key, default)

with_default_unchecked(self, default) ==
  IF self.value.tag = "Some"
  THEN LET r == into_string(self.value.v) IN
       IF r.tag = "Ok"
       THEN Valid(self.key, r.v)
       ELSE Valid(self.key, to_string_lossy(r.e))
  ELSE Valid(self.key, default)

\* with_default_unchecked_sub_invalid taking an empty value for an absent one:
\* C10_EmptyIsPresent excludes it.
with_default_unchecked_sub_invalid_empty(self, default) ==
  IF self.value.tag = "Some"
  THEN LET r == into_string(self.value.v) IN
       IF r.tag = "Ok" /\ Len(r.v) > 0
       THEN Valid(self.key, r.v)
       ELSE Valid(self.key, default)
  ELSE Valid(self.key, default)

with_default_unchecked_sub_invalid(self, default) ==
  IF self.value.tag = "Some"
  THEN LET r == into_string(self.value.v) IN
       IF r.tag = "Ok"
       THEN Valid(self.key, r.v)
       ELSE Valid(self.key, default)
  ELSE Valid(self.key, default)

\* with_default_checked with the absent arm of required_checked:
\* C1_AbsentOutcome excludes it.
with_default_checked_missing(self, default) ==
  IF self.value.tag = "Some"
  THEN LET r == into_string(self.value.v) IN
       IF r.tag = "Ok"
       THEN Ok(Valid(self.key, r.v))
       ELSE Err(InvalidUnicodeError(self.key, to_string_lossy(r.e)))
  ELSE Err(MissingError(self.key))

with_default_checked(self, default) ==
  IF self.value.tag = "Some"
  THEN LET r == into_string(self.value.v) IN
       IF r.tag = "Ok"
       THEN Ok(Valid(self.key, r.v))
       ELSE Err(InvalidUnicodeError(self.key, to_string_lossy(r.e)))
  ELSE Ok(Valid(self.key, default))

(***************************************************************************)
(* Types and conversions the caller instantiates the generic methods with  *)
(***************************************************************************)
TyStrRef == "&str"

TyString == "alloc::string::String"

TyName == "app::Name"

IntTypes == {"u8", "u16", "u32", "usize"}

type_name(T) == T

Typed(ty, v) == [ty |-> ty, v |-> v]

\* One invocation of a conversion and what it returned.
Invoke(res) == [res |-> res, calls |-> 1]

MaxOf(T) == CASE T = "u8" -> 2^8 - 1 [] T = "u16" -> 2^16 - 1

DigitChars == {"0", "1", "2", "3", "4", "5", "6", "7", "8", "9"}

DigitOf(c) ==
  CASE c = "0" -> 0 [] c = "1" -> 1 [] c = "2" -> 2 [] c = "3" -> 3 [] c = "4" -> 4
    [] c = "5" -> 5 [] c = "6" -> 6 [] c = "7" -> 7 [] c = "8" -> 8 [] c = "9" -> 9

CharOf(d) == <<"0", "1", "2", "3", "4", "5", "6", "7", "8", "9">>[d + 1]

RECURSIVE ParseDigits(_, _, _, _)
ParseDigits(T, s, i, acc) ==
  IF i > Len(s) THEN Ok(acc)
  ELSE IF s[i] \notin DigitChars THEN Err("ParseIntError::InvalidDigit")
  ELSE LET n == acc * 10 + DigitOf(s[i]) IN
       IF n > MaxOf(T) THEN Err("ParseIntError::PosOverflow")
       ELSE ParseDigits(T, s, i + 1, n)

\* <u16 as FromStr>::from_str, an unsigned integer of radix 10.
ParseUnsigned(T, s) ==
  IF Len(s) = 0 THEN Err("ParseIntError::Empty")
  ELSE IF Len(s) = 1 /\ s[1] \in {"+", "-"} THEN Err("ParseIntError::InvalidDigit")
  ELSE IF s[1] = "+" THEN ParseDigits(T, s, 2, 0)
  ELSE ParseDigits(T, s, 1, 0)

RECURSIVE RenderInt(_)
RenderInt(n) ==
  IF n < 10 THEN <<CharOf(n)>> ELSE Append(RenderInt(n \div 10), CharOf(n % 10))

TypedOk(T, r) == IF r.tag = "Ok" THEN Ok(Typed(T, r.v)) ELSE r

\* T: FromStr
FromStrTypes == {"u16", TyString}

from_str(T, s) ==
  Invoke(IF T = TyString THEN Ok(Typed(TyString, s)) ELSE TypedOk(T, ParseUnsigned(T, s)))

\* String: Into<T>, and &str: Into<T>
TextIntoTypes == {TyString}

text_into(T, s) == Invoke(Typed(T, s))

\* String: TryInto<T>, and &str: TryInto<T>; Name is a caller's type that
\* refuses the empty text.
TextTryIntoTypes == {TyString, TyName}

text_try_into(T, s) ==
  Invoke(IF T = TyName /\ Len(s) = 0 THEN Err("EmptyName") ELSE Ok(Typed(T, s)))

\* The caller's functions of the text: FnOnce(String) -> T, FnOnce(&str) -> T
TextFns == {"len"}

FnType(f) == CASE f = "len" -> "usize" [] f = "parse_u16" -> "u16"
               [] f = "to_string" -> TyString [] f = "nonzero" -> "u32"
               [] OTHER -> "u8"

text_fn(f, s) == Invoke(Typed(FnType(f), Len(s)))

\* FnOnce(String) -> Result<T, E>, FnOnce(&str) -> Result<T, E>
TextTryFns == {"parse_u16", "reject"}

text_try_fn(f, s) ==
  Invoke(IF f = "parse_u16" THEN TypedOk("u16", ParseUnsigned("u16", s)) ELSE Err("Rejected"))

\* P: Into<T>
IntoTypes(P) ==
  CASE P = "u8" -> {"u16", "u32"} [] P = "u16" -> {"u32"} [] P = TyString -> {TyString}
    [] OTHER -> {}

inner_into(T, inner) == Invoke(Typed(T, inner.v))

\* P: TryInto<T>
TryIntoTypes(P) ==
  CASE P = "u16" -> {"u8"} [] P = "u32" -> {"u16"} [] P = "usize" -> {"u8"}
    [] P = TyString -> {TyName} [] OTHER -> {}

inner_try_into(T, inner) ==
  Invoke(IF T = TyName
         THEN (IF Len(inner.v) = 0 THEN Err("EmptyName") ELSE Ok(Typed(T, inner.v)))
         ELSE IF inner.v > MaxOf(T) THEN Err("TryFromIntError") ELSE Ok(Typed(T, inner.v)))

\* The caller's functions of the typed value: FnOnce(P) -> T
InnerFns(P) == IF P \in IntTypes THEN {"to_string"} ELSE {"len"}

inner_fn(f, inner) ==
  Invoke(IF f = "to_string" THEN Typed(TyString, RenderInt(inner.v))
         ELSE Typed("usize", Len(inner.v)))

\* FnOnce(P) -> Result<T, E>
InnerTryFns(P) == IF P \in IntTypes THEN {"nonzero", "reject"} ELSE {"reject"}

inner_try_fn(f, inner) ==
  Invoke(IF f = "nonzero" /\ inner.v # 0 THEN Ok(Typed("u32", inner.v))
         ELSE IF f = "nonzero" THEN Err("Zero") ELSE Err("Rejected"))

\* String::clone and String::as_str hand the conversion the same text.
clone(s) == s

as_str(s) == s

(***************************************************************************)
(* impl Valid: each method returns what the code returns (ret) and how     *)
(* often it invoked the conversion (calls)                                 *)
(***************************************************************************)
Valid_into_inner(self) == self.value

TryResult(self, c, from, to) ==
  [ret |-> IF c.res.tag = "Ok"
           THEN Ok(Parsed(self.key, self.value, c.res.v))
           ELSE Err(ParseError(self.key, self.value, from, to, c.res.e)),
   calls |-> c.calls]

PlainResult(self, c) ==
  [ret |-> Parsed(self.key, self.value, c.res), calls |-> c.calls]

\* then_try_fromstr_into naming String where the code names &str:
\* C5_PortScenario excludes it.
then_try_fromstr_into_from_string(self, T) ==
  TryResult(self, from_str(T, self.value), type_name(TyString), type_name(T))

then_try_fromstr_into(self, T) ==
  TryResult(self, from_str(T, self.value), type_name(TyStrRef), type_name(T))

then_string_into(self, T) == PlainResult(self, text_into(T, clone(self.value)))

then_try_string_into(self, T) ==
  TryResult(self, text_try_into(T, clone(self.value)), type_name(TyString), type_name(T))

then_str_into(self, T) == PlainResult(self, text_into(T, as_str(self.value)))

then_try_str_into(self, T) ==
  TryResult(self, text_try_into(T, as_str(self.value)), type_name(TyStrRef), type_name(T))

then_fn_string_into(self, f) == PlainResult(self, text_fn(f, clone(self.value)))

then_try_fn_string_into(self, f) ==
  TryResult(self, text_try_fn(f, clone(self.value)), type_name(TyString),
            type_name(FnType(f)))

then_fn_str_into(self, f) == PlainResult(self, text_fn(f, as_str(self.value)))

then_try_fn_str_into(self, f) ==
  TryResult(self, text_try_fn(f, as_str(self.value)), type_name(TyStrRef),
            type_name(FnType(f)))

(***************************************************************************)
(* impl Parsed                                                             *)
(***************************************************************************)
Parsed_into_inner(self) == self.inner

then_into(self, T) == PlainResult(self, inner_into(T, self.inner))

\* then_try_into with the error's key and source name exchanged: C6_KeyKept
\* excludes it.
then_try_into_key_swapped(self, T) ==
  LET c == inner_try_into(T, self.inner) IN
  [ret |-> IF c.res.tag = "Ok"
           THEN Ok(Parsed(self.key, self.value, c.res.v))
           ELSE Err(ParseError(type_name(self.inner.ty), self.value, self.key,
                               type_name(T), c.res.e)),
   calls |-> c.calls]

then_try_into(self, T) ==
  TryResult(self, inner_try_into(T, self.inner), type_name(self.inner.ty), type_name(T))

then_fn_into(self, f) == PlainResult(self, inner_fn(f, self.inner))

\* then_try_fn_into reporting the typed value's rendering in place of the
\* original string: C4_OriginalTextKept excludes it.
then_try_fn_into_renders(self, f) ==
  LET c == inner_try_fn(f, self.inner)
      shown == IF self.inner.ty \in IntTypes THEN RenderInt(self.inner.v)
               ELSE self.value IN
  [ret |-> IF c.res.tag = "Ok"
           THEN Ok(Parsed(self.key, self.value, c.res.v))
           ELSE Err(ParseError(self.key, shown, type_name(self.inner.ty),
                               type_name(FnType(f)), c.res.e)),
   calls |-> c.calls]

\* then_try_fn_into calling the function a second time when it failed:
\* C9_FirstErrorOnly excludes it.
then_try_fn_into_retries(self, f) ==
  LET c == inner_try_fn(f, self.inner)
      d == IF c.res.tag = "Ok" THEN c
           ELSE [res |-> inner_try_fn(f, self.inner).res, calls |-> c.calls + 1] IN
  [ret |-> IF d.res.tag = "Ok"
           THEN Ok(Parsed(self.key, self.value, d.res.v))
           ELSE Err(ParseError(self.key, self.value, type_name(self.inner.ty),
                               type_name(FnType(f)), d.res.e)),
   calls |-> d.calls]

then_try_fn_into(self, f) ==
  TryResult(self, inner_try_fn(f, self.inner), type_name(self.inner.ty),
            type_name(FnType(f)))

(***************************************************************************)
(* The caller: one pipeline run                                            *)
(***************************************************************************)
Idle == [tag |-> "Idle"]

Inner(v) == [tag |-> "Inner", v |-> v]

\* The stage a returned value hands the caller, through Ok and Some.
RECURSIVE Stage(_)
Stage(r) ==
  IF r.tag \in {"Raw", "Valid", "Parsed"} THEN r
  ELSE IF r.tag \in {"Ok", "Some"} THEN Stage(r.v)
  ELSE Idle

Called(op, default, param) == [op |-> op, default |-> default, param |-> param]

\* One variable holds any of the generated values (or is absent); the others
\* are absent until another actor sets them.
InitEnvs ==
  {[j \in Keys |-> IF j = k THEN v ELSE NoneV] :
     k \in Keys, v \in {NoneV} \cup {Some(x) : x \in OsValues}}

\* What another actor of the process writes: a removal, a text.
EnvWrites == {NoneV, Some(<<"7">>)}

Init ==
  /\ env \in InitEnvs
  /\ cur = Idle
  /\ asked = ""
  /\ observed = NoneV
  /\ trace = <<>>
  /\ first = NoneV
  /\ steps = 0
  /\ invoked = 0
  /\ objs = <<>>

\* Another actor of the process sets or removes a variable.
EnvSet ==
  \E k \in Keys, v \in EnvWrites :
    /\ env[k] # v
    /\ env' = [env EXCEPT ![k] = v]
    /\ UNCHANGED <<cur, asked, observed, trace, first, steps, invoked, objs>>

Get ==
  \E k \in Keys :
    /\ cur = Idle
    /\ cur' = get(k)
    /\ asked' = k
    /\ observed' = var_os(k)
    /\ trace' = <<Called("get", NoneV, "")>>
    /\ UNCHANGED <<env, first, steps, invoked, objs>>

\* A method of Raw, or into_inner of any stage: no conversion is invoked.
Returns(ret, op, default) ==
  /\ cur' = ret
  /\ trace' = Append(trace, Called(op, default, ""))
  /\ UNCHANGED <<env, asked, observed, first, steps, invoked, objs>>

RawIntoInner ==
  /\ Stage(cur).tag = "Raw"
  /\ Returns(Inner(Raw_into_inner(Stage(cur))), "Raw::into_inner", NoneV)

RequiredUnchecked ==
  /\ Stage(cur).tag = "Raw"
  /\ Returns(required_unchecked(Stage(cur)), "required_unchecked", NoneV)

RequiredChecked ==
  /\ Stage(cur).tag = "Raw"
  /\ Returns(required_checked(Stage(cur)), "required_checked", NoneV)

OptionalUnchecked ==
  /\ Stage(cur).tag = "Raw"
  /\ Returns(optional_unchecked(Stage(cur)), "optional_unchecked", NoneV)

OptionalChecked ==
  /\ Stage(cur).tag = "Raw"
  /\ Returns(optional_checked(Stage(cur)), "optional_checked", NoneV)

WithDefaultUnchecked ==
  \E d \in Defaults :
    /\ Stage(cur).tag = "Raw"
    /\ Returns(with_default_unchecked(Stage(cur), d), "with_default_unchecked", Some(d))

WithDefaultUncheckedSubInvalid ==
  \E d \in Defaults :
    /\ Stage(cur).tag = "Raw"
    /\ Returns(with_default_unchecked_sub_invalid(Stage(cur), d),
               "with_default_unchecked_sub_invalid", Some(d))

WithDefaultChecked ==
  \E d \in Defaults :
    /\ Stage(cur).tag = "Raw"
    /\ Returns(with_default_checked(Stage(cur), d), "with_default_checked", Some(d))

ValidIntoInner ==
  /\ Stage(cur).tag = "Valid"
  /\ Returns(Inner(Valid_into_inner(Stage(cur))), "Valid::into_inner", NoneV)

ParsedIntoInner ==
  /\ Stage(cur).tag = "Parsed"
  /\ Returns(Inner(Parsed_into_inner(Stage(cur))), "Parsed::into_inner", NoneV)

\* A conversion step: out is what the method returned and how often it invoked
\* the conversion.
Converts(out, op, param) ==
  /\ steps < MaxSteps
  /\ cur' = out.ret
  /\ trace' = Append(trace, Called(op, NoneV, param))
  /\ first' = IF Stage(cur).tag = "Valid" THEN Some(Stage(cur).value) ELSE first
  /\ steps' = steps + 1
  /\ invoked' = invoked + out.calls
  /\ UNCHANGED <<env, asked, observed, objs>>

ThenTryFromstrInto ==
  \E T \in FromStrTypes :
    /\ Stage(cur).tag = "Valid"
    /\ Converts(then_try_fromstr_into(Stage(cur), T), "then_try_fromstr_into", T)

ThenStringInto ==
  \E T \in TextIntoTypes :
    /\ Stage(cur).tag = "Valid"
    /\ Converts(then_string_into(Stage(cur), T), "then_string_into", T)

ThenTryStringInto ==
  \E T \in TextTryIntoTypes :
    /\ Stage(cur).tag = "Valid"
    /\ Converts(then_try_string_into(Stage(cur), T), "then_try_string_into", T)

ThenStrInto ==
  \E T \in TextIntoTypes :
    /\ Stage(cur).tag = "Valid"
    /\ Converts(then_str_into(Stage(cur), T), "then_str_into", T)

ThenTryStrInto ==
  \E T \in TextTryIntoTypes :
    /\ Stage(cur).tag = "Valid"
    /\ Converts(then_try_str_into(Stage(cur), T), "then_try_str_into", T)

ThenFnStringInto ==
  \E f \in TextFns :
    /\ Stage(cur).tag = "Valid"
    /\ Converts(then_fn_string_into(Stage(cur), f), "then_fn_string_into", f)

ThenTryFnStringInto ==
  \E f \in TextTryFns :
    /\ Stage(cur).tag = "Valid"
    /\ Converts(then_try_fn_string_into(Stage(cur), f), "then_try_fn_string_into", f)

ThenFnStrInto ==
  \E f \in TextFns :
    /\ Stage(cur).tag = "Valid"
    /\ Converts(then_fn_str_into(Stage(cur), f), "then_fn_str_into", f)

ThenTryFnStrInto ==
  \E f \in TextTryFns :
    /\ Stage(cur).tag = "Valid"
    /\ Converts(then_try_fn_str_into(Stage(cur), f), "then_try_fn_str_into", f)

ThenInto ==
  /\ Stage(cur).tag = "Parsed"
  /\ \E T \in IntoTypes(Stage(cur).inner.ty) :
       Converts(then_into(Stage(cur), T), "then_into", T)

ThenTryInto ==
  /\ Stage(cur).tag = "Parsed"
  /\ \E T \in TryIntoTypes(Stage(cur).inner.ty) :
       Converts(then_try_into(Stage(cur), T), "then_try_into", T)

ThenFnInto ==
  /\ Stage(cur).tag = "Parsed"
  /\ \E f \in InnerFns(Stage(cur).inner.ty) :
       Converts(then_fn_into(Stage(cur), f), "then_fn_into", f)

ThenTryFnInto ==
  /\ Stage(cur).tag = "Parsed"
  /\ \E f \in InnerTryFns(Stage(cur).inner.ty) :
       Converts(then_try_fn_into(Stage(cur), f), "then_try_fn_into", f)

Next ==
  \/ EnvSet
  \/ Get
  \/ RawIntoInner
  \/ RequiredUnchecked
  \/ RequiredChecked
  \/ OptionalUnchecked
  \/ OptionalChecked
  \/ WithDefaultUnchecked
  \/ WithDefaultUncheckedSubInvalid
  \/ WithDefaultChecked
  \/ ValidIntoInner
  \/ ThenTryFromstrInto
  \/ ThenStringInto
  \/ ThenTryStringInto
  \/ ThenStrInto
  \/ ThenTryStrInto
  \/ ThenFnStringInto
  \/ ThenTryFnStringInto
  \/ ThenFnStrInto
  \/ ThenTryFnStrInto
  \/ ParsedIntoInner
  \/ ThenInto
  \/ ThenTryInto
  \/ ThenFnInto
  \/ ThenTryFnInto

Spec == Init /\ [][Next]_vars

(***************************************************************************)
(* Ownership: the stage objects of one caller.  Every method takes `self`  *)
(* by value, which moves the receiver; the compiler refuses a use of a     *)
(* moved object.  Raw, Valid and Parsed derive Clone.                      *)
(***************************************************************************)
\* An object: its stage, whether it was moved from, how many methods took it
\* as receiver, the object whose consumption produced it (0: get, or a copy)
\* and the object it is a copy of (itself when it is no copy).
Obj(stage, pred, copyOf) ==
  [stage |-> stage, moved |-> FALSE, used |-> 0, pred |-> pred, copyOf |-> copyOf]

\* `self` by value: the receiver is moved into the method.
\* A receiver taken by reference (`&self`) stays usable: C7_MovedOnce excludes it.
MoveSelf_borrowed(os, i) == os

MoveSelf(os, i) == [os EXCEPT ![i].moved = TRUE]

\* #[derive(Clone)]: a second object with the same key, value and inner.
derive_Clone(o) == Obj(o.stage, 0, o.copyOf)

Usable(i) == i \in DOMAIN objs /\ ~objs[i].moved

\* Object i is the receiver of a method that returned ret.
Consumes(i, ret) ==
  /\ Len(objs) < MaxObjs
  /\ LET called == [objs EXCEPT ![i].used = @ + 1] IN
     objs' = IF Stage(ret) = Idle THEN MoveSelf(called, i)
             ELSE Append(MoveSelf(called, i), Obj(Stage(ret), i, Len(objs) + 1))
  /\ UNCHANGED <<env, cur, asked, observed, trace, first, steps, invoked>>

OwnGet ==
  \E k \in Keys :
    /\ Len(objs) < MaxObjs
    /\ objs' = Append(objs, Obj(get(k), 0, Len(objs) + 1))
    /\ UNCHANGED <<env, cur, asked, observed, trace, first, steps, invoked>>

OwnClone ==
  \E i \in DOMAIN objs :
    /\ Usable(i)
    /\ Len(objs) < MaxObjs
    /\ objs' = Append(objs, derive_Clone(objs[i]))
    /\ UNCHANGED <<env, cur, asked, observed, trace, first, steps, invoked>>

OwnIntoInner ==
  \E i \in DOMAIN objs :
    /\ Usable(i)
    /\ LET self == objs[i].stage IN
       \/ self.tag = "Raw" /\ Consumes(i, Inner(Raw_into_inner(self)))
       \/ self.tag = "Valid" /\ Consumes(i, Inner(Valid_into_inner(self)))
       \/ self.tag = "Parsed" /\ Consumes(i, Inner(Parsed_into_inner(self)))

OwnRawMethod ==
  \E i \in DOMAIN objs :
    /\ Usable(i)
    /\ objs[i].stage.tag = "Raw"
    /\ LET self == objs[i].stage IN
       \/ Consumes(i, required_unchecked(self))
       \/ Consumes(i, required_checked(self))
       \/ Consumes(i, optional_unchecked(self))
       \/ Consumes(i, optional_checked(self))
       \/ \E d \in Defaults : Consumes(i, with_default_unchecked(self, d))
       \/ \E d \in Defaults : Consumes(i, with_default_unchecked_sub_invalid(self, d))
       \/ \E d \in Defaults : Consumes(i, with_default_checked(self, d))

OwnValidMethod ==
  \E i \in DOMAIN objs :
    /\ Usable(i)
    /\ objs[i].stage.tag = "Valid"
    /\ LET self == objs[i].stage IN
       \/ \E T \in FromStrTypes : Consumes(i, then_try_fromstr_into(self, T).ret)
       \/ \E T \in TextIntoTypes : Consumes(i, then_string_into(self, T).ret)
       \/ \E T \in TextTryIntoTypes : Consumes(i, then_try_string_into(self, T).ret)
       \/ \E T \in TextIntoTypes : Consumes(i, then_str_into(self, T).ret)
       \/ \E T \in TextTryIntoTypes : Consumes(i, then_try_str_into(self, T).ret)
       \/ \E f \in TextFns : Consumes(i, then_fn_string_into(self, f).ret)
       \/ \E f \in TextTryFns : Consumes(i, then_try_fn_string_into(self, f).ret)
       \/ \E f \in TextFns : Consumes(i, then_fn_str_into(self, f).ret)
       \/ \E f \in TextTryFns : Consumes(i, then_try_fn_str_into(self, f).ret)

OwnParsedMethod ==
  \E i \in DOMAIN objs :
    /\ Usable(i)
    /\ objs[i].stage.tag = "Parsed"
    /\ LET self == objs[i].stage IN
       \/ \E T \in IntoTypes(self.inner.ty) : Consumes(i, then_into(self, T).ret)
       \/ \E T \in TryIntoTypes(self.inner.ty) : Consumes(i, then_try_into(self, T).ret)
       \/ \E f \in InnerFns(self.inner.ty) : Consumes(i, then_fn_into(self, f).ret)
       \/ \E f \in InnerTryFns(self.inner.ty) : Consumes(i, then_try_fn_into(self, f).ret)

OwnNext ==
  \/ OwnGet
  \/ OwnClone
  \/ OwnIntoInner
  \/ OwnRawMethod
  \/ OwnValidMethod
  \/ OwnParsedMethod

OwnSpec == Init /\ [][OwnNext]_vars

(***************************************************************************)
(* Properties                                                              *)
(***************************************************************************)
RequiredOps == {"required_unchecked", "required_checked"}

OptionalOps == {"optional_unchecked", "optional_checked"}

DefaultOps ==
  {"with_default_unchecked", "with_default_unchecked_sub_invalid", "with_default_checked"}

CheckedOps == {"required_checked", "optional_checked", "with_default_checked"}

UncheckedOps == {"required_unchecked", "optional_unchecked", "with_default_unchecked"}

RawOps == RequiredOps \cup OptionalOps \cup DefaultOps

IsText(os) == \A i \in DOMAIN os : os[i] # InvalidUnit

\* The Raw-stage method has just returned: cur is its result.
AfterRawOp == Len(trace) = 2 /\ trace[2].op \in RawOps

RawOp == trace[2].op

Absent == observed = NoneV

PresentText == observed.tag = "Some" /\ IsText(observed.v)

PresentInvalid == observed.tag = "Some" /\ ~IsText(observed.v)

\* C1: when the variable is absent, required_* return Missing with the key,
\* optional_unchecked returns None and optional_checked Ok(None), and every
\* with_default_* returns a Valid stage holding exactly the caller's default.
C1_AbsentOutcome ==
  (AfterRawOp /\ Absent) =>
    /\ RawOp \in RequiredOps => cur = Err(MissingError(asked))
    /\ RawOp = "optional_unchecked" => cur = NoneV
    /\ RawOp = "optional_checked" => cur = Ok(NoneV)
    /\ RawOp \in DefaultOps =>
         /\ cur.tag # "Err"
         /\ Stage(cur) = Valid(asked, trace[2].default.v)

C1_Witness ==
  /\ AfterRawOp
  /\ Absent
  /\ RawOp = "with_default_checked"
  /\ cur = Ok(Valid("PORT", <<"8", "0", "8", "0">>))

\* C2: when the variable is present with valid text, each of the seven Raw
\* methods succeeds with a Valid stage holding exactly that text, whatever the
\* default.
C2_TextUnchanged ==
  (AfterRawOp /\ PresentText) =>
    /\ cur.tag \notin {"Err", "None"}
    /\ Stage(cur) = Valid(asked, observed.v)

C2_Witness ==
  /\ AfterRawOp
  /\ RawOp = "with_default_unchecked_sub_invalid"
  /\ trace[2].default = Some(<<"d">>)
  /\ observed = Some(<<"+", "7">>)
  /\ Stage(cur) = Valid("HOST", <<"+", "7">>)

\* C3: when the variable is present with invalid Unicode, the checked methods
\* return InvalidUnicode with the key and the lossy rendering, the unchecked
\* methods return a Valid stage holding that rendering, and
\* with_default_unchecked_sub_invalid returns a Valid stage holding the default.
C3_InvalidOutcome ==
  (AfterRawOp /\ PresentInvalid) =>
    /\ RawOp \in CheckedOps =>
         cur = Err(InvalidUnicodeError(asked, to_string_lossy(observed.v)))
    /\ RawOp \in UncheckedOps =>
         /\ cur.tag # "Err"
         /\ Stage(cur) = Valid(asked, to_string_lossy(observed.v))
    /\ RawOp = "with_default_unchecked_sub_invalid" =>
         Stage(cur) = Valid(asked, trace[2].default.v)

C3_Witness ==
  /\ AfterRawOp
  /\ RawOp = "optional_checked"
  /\ observed = Some(<<"7", InvalidUnit>>)
  /\ cur = Err(InvalidUnicodeError("PORT", <<"7", Replacement>>))

\* C4: the string of every Parsed stage, and the value of a Parse error raised
\* at any step, is the validated string that entered the first conversion.
C4_OriginalTextKept ==
  /\ Stage(cur).tag = "Parsed" => (first.tag = "Some" /\ Stage(cur).value = first.v)
  /\ (cur.tag = "Err" /\ cur.e.variant = "Parse") =>
       (first.tag = "Some" /\ cur.e.value = first.v)

C4_Witness ==
  /\ steps = 2
  /\ cur.tag = "Err"
  /\ cur.e.variant = "Parse"
  /\ cur.e.from = "u16"
  /\ cur.e.value = <<"+", "7">>

\* The scenario of C5: get("PORT"), a with_default_* method with default
\* "8080", then then_try_fromstr_into::<u16>.
PortScenario ==
  /\ asked = "PORT"
  /\ Len(trace) = 3
  /\ trace[2].op \in DefaultOps
  /\ trace[2].default = Some(<<"8", "0", "8", "0">>)
  /\ trace[3] = Called("then_try_fromstr_into", NoneV, "u16")

PortResults(from, to) ==
  /\ Absent => cur = Ok(Parsed("PORT", <<"8", "0", "8", "0">>, Typed("u16", 8080)))
  /\ observed = Some(<<"9", "0", "9", "0">>) =>
       cur = Ok(Parsed("PORT", <<"9", "0", "9", "0">>, Typed("u16", 9090)))
  /\ observed = Some(<<"a", "b", "c">>) =>
       /\ cur.tag = "Err"
       /\ cur.e.variant = "Parse"
       /\ cur.e.key = "PORT"
       /\ cur.e.value = <<"a", "b", "c">>
       /\ cur.e.from = from
       /\ cur.e.to = to

\* C5 as amended: PORT unset with default "8080" parses to 8080, PORT="9090"
\* parses to 9090, and PORT="abc" gives a Parse error whose source is named
\* "&str" and whose target is named by the integer type, "u16".
C5_PortScenario == PortScenario => PortResults("&str", "u16")

C5_Witness ==
  /\ PortScenario
  /\ observed = Some(<<"a", "b", "c">>)
  /\ cur.tag = "Err"
  /\ cur.e.err = "ParseIntError::InvalidDigit"

\* C5 as stated: the Parse error names the source "string" and the target
\* "integer".
C5_AsStated == PortScenario => PortResults("string", "integer")

\* C6: every stage and every error of a pipeline carries the key get was
\* called with.
C6_KeyKept ==
  /\ Stage(cur) # Idle => Stage(cur).key = asked
  /\ cur.tag = "Err" => cur.e.key = asked

C6_Witness ==
  /\ asked = "HOST"
  /\ steps = 2
  /\ cur.tag = "Err"
  /\ cur.e.variant = "Parse"
  /\ cur.e.key = "HOST"

\* C7 as amended: a stage object is consumed by the method called on it, so
\* one object is the receiver of at most one method and is moved from once its
\* successor exists; a copy made with clone() is another object.
C7_MovedOnce ==
  \A i \in DOMAIN objs :
    /\ objs[i].used <= 1
    /\ objs[i].used = 1 => objs[i].moved
    /\ objs[i].pred # 0 => (objs[objs[i].pred].moved /\ objs[objs[i].pred].used = 1)

C7_Witness ==
  \E i, j, k \in DOMAIN objs :
    /\ objs[j].pred = i
    /\ objs[i].moved
    /\ objs[j].stage.tag = "Valid"
    /\ k # i
    /\ objs[k].copyOf = objs[i].copyOf
    /\ Usable(k)

\* C7 as stated: a stage is used exactly once: the stage (the object or a
\* copy of it) goes through no second method, and is not held once its
\* successor exists.
C7_AsStated ==
  \A i, k \in DOMAIN objs :
    (i # k /\ objs[i].copyOf = objs[k].copyOf) =>
      /\ ~(objs[i].used > 0 /\ objs[k].used > 0)
      /\ (\E j \in DOMAIN objs : objs[j].pred = i) => ~Usable(k)

\* The texts a pipeline can hold given what get observed and the default given.
SnapshotTexts ==
  LET given == IF Len(trace) >= 2 /\ trace[2].op \in DefaultOps
               THEN {trace[2].default.v} ELSE {} IN
  IF Absent THEN given
  ELSE IF IsText(observed.v) THEN {observed.v}
  ELSE {to_string_lossy(observed.v)} \cup given

C8_Snapshot ==
  /\ Stage(cur).tag = "Raw" => Stage(cur).value = observed
  /\ Stage(cur).tag \in {"Valid", "Parsed"} => Stage(cur).value \in SnapshotTexts
  /\ (cur.tag = "Err" /\ cur.e.variant = "Missing") => Absent
  /\ (cur.tag = "Err" /\ cur.e.variant = "InvalidUnicode") =>
       (PresentInvalid /\ cur.e.value = to_string_lossy(observed.v))
  /\ (cur.tag = "Err" /\ cur.e.variant = "Parse") => cur.e.value \in SnapshotTexts
  /\ (AfterRawOp /\ RawOp \in OptionalOps /\ Stage(cur) = Idle /\ cur.tag # "Err") => Absent

\* C8: the environment is read by get alone and written by no method: what a
\* pipeline holds and returns is decided by the value get observed, also when
\* the variable changes afterwards, and a step of the caller leaves the
\* environment as it is.
C8_ReadOnce == [](C8_Snapshot) /\ [][trace' # trace => env' = env]_vars

C8_Witness ==
  /\ Len(trace) = 3
  /\ observed = Some(<<"9", "0", "9", "0">>)
  /\ env[asked] = Some(<<"7">>)
  /\ trace[2].op = "required_unchecked"
  /\ Stage(cur).tag = "Parsed"
  /\ Stage(cur).inner.ty = "u16"
  /\ Stage(cur).inner.v = 9090

ConvOps ==
  {"then_try_fromstr_into", "then_string_into", "then_try_string_into", "then_str_into",
   "then_try_str_into", "then_fn_string_into", "then_try_fn_string_into",
   "then_fn_str_into", "then_try_fn_str_into", "then_into", "then_try_into",
   "then_fn_into", "then_try_fn_into"}

ConvCalls == Cardinality({i \in DOMAIN trace : trace[i].op \in ConvOps})

\* C9: a run reports at most one error, that of the first stage that fails:
\* after an error nothing more is called or invoked, a conversion is invoked
\* only on a Valid or Parsed stage, and every conversion step invokes its
\* conversion exactly once.
C9_FirstErrorOnly ==
  /\ [](invoked = ConvCalls)
  /\ [][cur.tag = "Err" => (cur' = cur /\ trace' = trace /\ invoked' = invoked)]_vars
  /\ [][invoked' # invoked => Stage(cur).tag \in {"Valid", "Parsed"}]_vars

C9_Witness ==
  /\ cur.tag = "Err"
  /\ cur.e.variant = "Parse"
  /\ cur.e.err = "TryFromIntError"
  /\ invoked = 2
  /\ env[asked] # observed

\* C10: a variable present with the empty string is present: every required_*
\* and optional_* method yields a Valid stage with the empty string, every
\* with_default_* method yields the empty string and not the default, and a
\* default is substituted only for an absent variable (and, by
\* with_default_unchecked_sub_invalid only, for invalid Unicode).
C10_EmptyIsPresent ==
  /\ (AfterRawOp /\ observed = Some(<<>>)) =>
       (cur.tag \notin {"Err", "None"} /\ Stage(cur) = Valid(asked, <<>>))
  /\ (AfterRawOp /\ RawOp \in DefaultOps /\ observed.tag = "Some"
        /\ Stage(cur).tag = "Valid" /\ Stage(cur).value = trace[2].default.v) =>
       \/ observed.v = trace[2].default.v
       \/ RawOp = "with_default_unchecked_sub_invalid" /\ ~IsText(observed.v)
       \/ RawOp = "with_default_unchecked"
            /\ to_string_lossy(observed.v) = trace[2].default.v

C10_Witness ==
  /\ AfterRawOp
  /\ observed = Some(<<>>)
  /\ RawOp = "with_default_unchecked_sub_invalid"
  /\ trace[2].default = Some(<<"d">>)
  /\ cur = Valid("HOST", <<>>)

====
